---- MODULE Spec2Model ----
(***************************************************************************)
(* Model of scripts/bench_diff.py (compare two JMH result files) and       *)
(* scripts/bench_table.py (render one JMH result file as tables).          *)
(*                                                                         *)
(* Python strings are sequences of code points (<<65>> is "A"), so that    *)
(* ordering, substring search, str() and number formatting are computed.   *)
(* A Python dict is the sequence of its items in insertion order.          *)
(* Numbers are integers: the inputs drawn are integer-valued floats.       *)
(***************************************************************************)
EXTENDS Integers, Sequences, FiniteSets, TLC

VARIABLES pc, args, current_idx, baseline_idx, keys, missing_in_baseline,
          missing_in_current, stdout, rc, raised, result, rows, groups, exit_status

vars == <<pc, args, current_idx, baseline_idx, keys, missing_in_baseline,
          missing_in_current, stdout, rc, raised, result, rows, groups, exit_status>>

----------------------------------------------------------------------------
(* Bounds of the model *)

MaxEntries == 2          \* entries per input file of the compare runs
MaxPermEntries == 2      \* entries per input file of the reordering runs
MaxIndexEntries == 3     \* entries per list given to _index
MaxRows == 3             \* entries per input file of the table runs
MaxNum == 6              \* magnitude of the values given to _fmt_delta

----------------------------------------------------------------------------
(* Generic helpers *)

Range(s) == {s[i] : i \in 1..Len(s)}

SeqsUpTo(S, n) == UNION {[1..m -> S] : m \in 0..n}

Max2(a, b) == IF a >= b THEN a ELSE b

Abs(n) == IF n < 0 THEN -n ELSE n

(* Python str < str, tuple < tuple : lexicographic, a proper prefix is less *)
RECURSIVE StrLt(_, _)
StrLt(a, b) ==
    IF b = <<>> THEN FALSE
    ELSE IF a = <<>> THEN TRUE
    ELSE IF Head(a) # Head(b) THEN Head(a) < Head(b)
    ELSE StrLt(Tail(a), Tail(b))

(* Python "substring in s" *)
Contains(s, substring) ==
    \E i \in 1..(Len(s) - Len(substring) + 1) :
        SubSeq(s, i, i + Len(substring) - 1) = substring

----------------------------------------------------------------------------
(* JSON values as json.load returns them *)

VStr(s) == [t |-> "str", s |-> s, n |-> 0]
VInt(n) == [t |-> "int", s |-> <<>>, n |-> n]
VNull == [t |-> "null", s |-> <<>>, n |-> 0]
VList == [t |-> "list", s |-> <<>>, n |-> 1]       \* the JSON array [1]
Absent == [t |-> "absent", s |-> <<>>, n |-> 0]    \* the key is not in the dict

PDict(items) == [t |-> "dict", items |-> items]
PAbsent == [t |-> "absent", items |-> <<>>]
PNull == [t |-> "null", items |-> <<>>]
PStr == [t |-> "str", items |-> <<>>]              \* the JSON string "p"

QDict(p50, p99, p999) == [t |-> "dict", p50 |-> p50, p99 |-> p99, p999 |-> p999]
QOther(t) == [t |-> t, p50 |-> Absent, p99 |-> Absent, p999 |-> Absent]

MDict(score, unit, pct) ==
    [t |-> "dict", score |-> score, scoreUnit |-> unit, scorePercentiles |-> pct]
MOther(t) ==
    [t |-> t, score |-> Absent, scoreUnit |-> Absent, scorePercentiles |-> QOther("absent")]

EDict(benchmark, params, metric) ==
    [t |-> "dict", benchmark |-> benchmark, params |-> params, primaryMetric |-> metric]
ENotDict ==                                        \* the JSON number 1 as a list element
    [t |-> "int", benchmark |-> Absent, params |-> PAbsent, primaryMetric |-> MOther("absent")]

(* dict.get(key) : None when the key is absent *)
Get(v) == IF v.t = "absent" THEN VNull ELSE v

(* dict.get(key, "") *)
GetOrEmpty(v) == IF v.t = "absent" THEN VStr(<<>>) ELSE v

(* Python truthiness of a JSON value *)
Truthy(v) ==
    CASE v.t = "str" -> v.s # <<>>
      [] v.t = "int" -> v.n # 0
      [] v.t = "list" -> TRUE
      [] OTHER -> FALSE

RECURSIVE NatStr(_)
NatStr(n) == IF n < 10 THEN <<48 + n>> ELSE NatStr(n \div 10) \o <<48 + (n % 10)>>

(* str(int) *)
IntStr(n) == IF n < 0 THEN <<45>> \o NatStr(-n) ELSE NatStr(n)

(* str(v) of a JSON value *)
Str(v) ==
    CASE v.t = "str" -> v.s
      [] v.t = "int" -> IntStr(v.n)
      [] v.t = "list" -> <<91, 49, 93>>            \* "[1]"
      [] OTHER -> <<78, 111, 110, 101>>            \* "None"

----------------------------------------------------------------------------
(* bench_diff.py : EntryKey, _as_str_map, _key_for_entry, _index *)

EntryKey(benchmark, params) == [benchmark |-> benchmark, params |-> params]

AsStrMap(obj) ==
    IF obj.t # "dict" THEN <<>>
    ELSE [i \in 1..Len(obj.items) |-> <<obj.items[i][1], Str(obj.items[i][2])>>]

(* params.pop(p, None) *)
Pop(params, p) == SelectSeq(params, LAMBDA kv : kv[1] # p)

(* a faulty variant of PopAll : only the first ignored name is removed *)
PopAllFirstOnly(params, ignore_params) ==
    IF ignore_params = <<>> THEN params ELSE Pop(params, Head(ignore_params))

RECURSIVE PopAll(_, _)
PopAll(params, ignore_params) ==
    IF ignore_params = <<>> THEN params
    ELSE PopAll(Pop(params, Head(ignore_params)), Tail(ignore_params))

(* the sort key kv[0] of one item is less than that of another *)
ParamNameLt(a, b) == StrLt(a[1], b[1])

(* an item put into a list sorted by name, after the items not greater than it *)
RECURSIVE InsertByName(_, _)
InsertByName(x, t) ==
    IF t = <<>> THEN <<x>>
    ELSE IF ParamNameLt(x, Head(t)) THEN <<x>> \o t
    ELSE <<Head(t)>> \o InsertByName(x, Tail(t))

(* sorted(params.items(), key=lambda kv: kv[0]) : a stable sort *)
RECURSIVE SortedByName(_)
SortedByName(s) ==
    IF s = <<>> THEN <<>>
    ELSE InsertByName(s[Len(s)], SortedByName(SubSeq(s, 1, Len(s) - 1)))

KeyForEntry(entry, ignore_params) ==
    LET benchmark == Str(GetOrEmpty(entry.benchmark))
        params == PopAll(AsStrMap(entry.params), ignore_params)
        params_t == SortedByName(params)
    IN EntryKey(benchmark, params_t)

(* position of key k in a dict's items, 0 when absent *)
Find(d, k) ==
    IF \E i \in 1..Len(d) : d[i][1] = k
    THEN CHOOSE i \in 1..Len(d) : d[i][1] = k
    ELSE 0

(* a faulty variant of DictSet : an existing key keeps its entry *)
DictSetKeepFirst(d, k, e) ==
    IF Find(d, k) = 0 THEN Append(d, <<k, e>>) ELSE d

(* out[k] = e : a new key goes last, an existing key keeps its place *)
DictSet(d, k, e) ==
    IF Find(d, k) = 0 THEN Append(d, <<k, e>>)
    ELSE [d EXCEPT ![Find(d, k)] = <<k, e>>]

DictKeys(d) == [i \in 1..Len(d) |-> d[i][1]]

InDict(k, d) == Find(d, k) # 0

DictGet(d, k) == d[Find(d, k)][2]

(* a faulty variant of IndexFrom : entries without a benchmark name are indexed too *)
RECURSIVE IndexFromNoSkip(_, _, _)
IndexFromNoSkip(out, entries, ignore_params) ==
    IF entries = <<>> THEN out
    ELSE LET e == Head(entries)
             k == KeyForEntry(e, ignore_params)
         IN IF e.t # "dict" THEN IndexFromNoSkip(out, Tail(entries), ignore_params)
            ELSE IndexFromNoSkip(DictSet(out, k, e), Tail(entries), ignore_params)

RECURSIVE IndexFrom(_, _, _)
IndexFrom(out, entries, ignore_params) ==
    IF entries = <<>> THEN out
    ELSE LET e == Head(entries)
             k == KeyForEntry(e, ignore_params)
         IN IF e.t # "dict" THEN IndexFrom(out, Tail(entries), ignore_params)
            ELSE IF k.benchmark = <<>> THEN IndexFrom(out, Tail(entries), ignore_params)
            ELSE IndexFrom(DictSet(out, k, e), Tail(entries), ignore_params)

Index(entries, ignore_params) == IndexFrom(<<>>, entries, ignore_params)

----------------------------------------------------------------------------
(* bench_diff.py : metric access *)

None == [some |-> FALSE, v |-> 0]
Some(x) == [some |-> TRUE, v |-> x]

IsDigits(s) == s # <<>> /\ \A i \in 1..Len(s) : s[i] \in 48..57

RECURSIVE DigitsVal(_)
DigitsVal(s) == IF s = <<>> THEN 0 ELSE 10 * DigitsVal(SubSeq(s, 1, Len(s) - 1)) + (s[Len(s)] - 48)

(* try: float(v) except Exception: None   (strings drawn are digit strings or not numeric) *)
TryFloat(v) ==
    CASE v.t = "int" -> Some(v.n)
      [] v.t = "str" -> IF IsDigits(v.s) THEN Some(DigitsVal(v.s)) ELSE None
      [] OTHER -> None

EmptyMetric == MDict(Absent, Absent, QOther("absent"))

GetMetric(entry) ==
    LET metric == entry.primaryMetric
    IN IF metric.t # "dict" THEN EmptyMetric ELSE metric

(* a faulty variant of GetScore : a value that does not convert counts as 0 *)
GetScoreZeroDefault(metric) ==
    LET v == Get(metric.score)
    IN IF v.t = "null" THEN None
       ELSE IF TryFloat(v).some THEN TryFloat(v) ELSE Some(0)

GetScore(metric) ==
    LET v == Get(metric.score)
    IN IF v.t = "null" THEN None ELSE TryFloat(v)

GetUnit(metric) ==
    LET unit == Get(metric.scoreUnit)
    IN IF unit.t # "null" THEN Str(unit) ELSE <<>>

GetPercentile(metric, p) ==
    LET percentiles == metric.scorePercentiles
    IN IF percentiles.t # "dict" THEN None
       ELSE LET v == Get(percentiles[p])
            IN IF v.t = "null" THEN None ELSE TryFloat(v)

----------------------------------------------------------------------------
(* bench_diff.py : number formatting *)

Zeros(n) == [i \in 1..n |-> 48]

(* f"{x:+.6g}" of an integer x with |x| < 10^6 : sign and digits *)
FmtSignedG(x) == (IF x < 0 THEN <<45>> ELSE <<43>>) \o NatStr(Abs(x))

(* round(num / den) to the nearest integer, ties to even; num >= 0, den > 0 *)
RoundDiv(num, den) ==
    LET f == num \div den
        r == num % den
    IN IF 2 * r > den \/ (2 * r = den /\ f % 2 = 1) THEN f + 1 ELSE f

(* f"{pct:+.2f}" where pct = (delta / baseline) * 100.0, baseline # 0 ;      *)
(* the sign is that of the float quotient, also when it is a zero          *)
FmtSignedPct(delta, baseline) ==
    LET h == RoundDiv(Abs(delta) * 10000, Abs(baseline))
        neg == (delta < 0) # (baseline < 0)
        frac == h % 100
    IN (IF neg THEN <<45>> ELSE <<43>>) \o NatStr(h \div 100) \o <<46>>
           \o <<48 + (frac \div 10), 48 + (frac % 10)>>

(* a faulty variant of FmtDelta : the delta is taken as baseline - current *)
FmtDeltaReversed(current, baseline) ==
    LET delta == baseline - current
    IN IF baseline = 0 THEN FmtSignedG(delta)
       ELSE FmtSignedG(delta) \o <<32, 40>> \o FmtSignedPct(delta, baseline) \o <<37, 41>>

FmtDelta(current, baseline) ==
    LET delta == current - baseline
    IN IF baseline = 0 THEN FmtSignedG(delta)
       ELSE FmtSignedG(delta) \o <<32, 40>> \o FmtSignedPct(delta, baseline) \o <<37, 41>>

S_NA == <<110, 47, 97>>                            \* "n/a"

(* _fmt : v is None or an integer-valued float *)
Fmt(v) ==
    IF ~v.some THEN S_NA
    ELSE IF Abs(v.v) >= 100 THEN IntStr(v.v) \o <<46>> \o Zeros(3)
    ELSE IntStr(v.v) \o <<46>> \o Zeros(6)

----------------------------------------------------------------------------
(* bench_diff.py : compare *)

S_Current == <<67, 117, 114, 114, 101, 110, 116, 58, 32, 32>>       \* "Current:  "
S_Baseline == <<66, 97, 115, 101, 108, 105, 110, 101, 58, 32>>      \* "Baseline: "
S_FilterPre ==                                     \* "Filter: benchmark contains '"
    <<70, 105, 108, 116, 101, 114, 58, 32, 98, 101, 110, 99, 104, 109, 97, 114, 107,
      32, 99, 111, 110, 116, 97, 105, 110, 115, 32, 39>>
S_IgnoringPre ==                                   \* "Ignoring params: "
    <<73, 103, 110, 111, 114, 105, 110, 103, 32, 112, 97, 114, 97, 109, 115, 58, 32>>
S_NoMatch ==     \* "No matching benchmark+params entries found between current and baseline."
    <<78, 111, 32, 109, 97, 116, 99, 104, 105, 110, 103, 32, 98, 101, 110, 99, 104,
      109, 97, 114, 107, 43, 112, 97, 114, 97, 109, 115, 32, 101, 110, 116, 114, 105,
      101, 115, 32, 102, 111, 117, 110, 100, 32, 98, 101, 116, 119, 101, 101, 110, 32,
      99, 117, 114, 114, 101, 110, 116, 32, 97, 110, 100, 32, 98, 97, 115, 101, 108,
      105, 110, 101, 46>>
S_CurOnlyShort ==                                  \* "Current-only entries: "
    <<67, 117, 114, 114, 101, 110, 116, 45, 111, 110, 108, 121, 32, 101, 110, 116,
      114, 105, 101, 115, 58, 32>>
S_BaseOnlyShort ==                                 \* "Baseline-only entries: "
    <<66, 97, 115, 101, 108, 105, 110, 101, 45, 111, 110, 108, 121, 32, 101, 110,
      116, 114, 105, 101, 115, 58, 32>>
S_CurOnlyLong ==                                   \* "Current-only entries (no baseline match): "
    <<67, 117, 114, 114, 101, 110, 116, 45, 111, 110, 108, 121, 32, 101, 110, 116,
      114, 105, 101, 115, 32, 40, 110, 111, 32, 98, 97, 115, 101, 108, 105, 110, 101,
      32, 109, 97, 116, 99, 104, 41, 58, 32>>
S_BaseOnlyLong ==                                  \* "Baseline-only entries (not in current): "
    <<66, 97, 115, 101, 108, 105, 110, 101, 45, 111, 110, 108, 121, 32, 101, 110,
      116, 114, 105, 101, 115, 32, 40, 110, 111, 116, 32, 105, 110, 32, 99, 117, 114,
      114, 101, 110, 116, 41, 58, 32>>
S_Mean == <<32, 32, 109, 101, 97, 110, 58, 32, 32, 32>>             \* "  mean:   "
S_P50 == <<32, 32, 112, 53, 48, 58, 32, 32, 32, 32>>                \* "  p50:    "
S_P99 == <<32, 32, 112, 57, 57, 58, 32, 32, 32, 32>>                \* "  p99:    "
S_P999 == <<32, 32, 112, 57, 57, 46, 57, 58, 32, 32>>               \* "  p99.9:  "
S_Arrow == <<32, 45, 62, 32>>                                       \* " -> "
S_Delta == <<32, 32, 32, 916, 32>>                                  \* "   Delta-sign "

CurrentPath == <<99>>                              \* the file "c"
BaselinePath == <<98>>                             \* the file "b"

TList(items) == [t |-> "list", items |-> items]
TDict == [t |-> "dict", items |-> <<>>]            \* the JSON object {}

(* sep.join(parts) *)
RECURSIVE Join(_, _)
Join(sep, parts) ==
    IF parts = <<>> THEN <<>>
    ELSE IF Len(parts) = 1 THEN parts[1]
    ELSE parts[1] \o sep \o Join(sep, Tail(parts))

RECURSIVE Flatten(_)
Flatten(ss) == IF ss = <<>> THEN <<>> ELSE Head(ss) \o Flatten(Tail(ss))

(* EntryKey.pretty *)
Pretty(k) ==
    IF k.params = <<>> THEN k.benchmark
    ELSE LET params_str ==
                 Join(<<44, 32>>,
                      [i \in 1..Len(k.params) |-> k.params[i][1] \o <<61>> \o k.params[i][2]])
         IN k.benchmark \o <<32, 40>> \o params_str \o <<41>>

(* a faulty variant of MatchesBenchmark : the substring must start the name *)
MatchesBenchmarkPrefix(key, substring) ==
    IF ~Truthy(substring) THEN TRUE
    ELSE /\ Len(key.benchmark) >= Len(substring.s)
         /\ SubSeq(key.benchmark, 1, Len(substring.s)) = substring.s

MatchesBenchmark(key, substring) ==
    IF ~Truthy(substring) THEN TRUE
    ELSE Contains(key.benchmark, substring.s)

(* tuple order of (name, value) pairs *)
PairLt(p, q) == IF p[1] # q[1] THEN StrLt(p[1], q[1]) ELSE StrLt(p[2], q[2])

RECURSIVE ParamsLt(_, _)
ParamsLt(a, b) ==
    IF b = <<>> THEN FALSE
    ELSE IF a = <<>> THEN TRUE
    ELSE IF Head(a) # Head(b) THEN PairLt(Head(a), Head(b))
    ELSE ParamsLt(Tail(a), Tail(b))

(* order of the sort key (k.benchmark, k.params) *)
KeyLt(a, b) ==
    IF a.benchmark # b.benchmark THEN StrLt(a.benchmark, b.benchmark)
    ELSE ParamsLt(a.params, b.params)

(* a key put into a list sorted by (benchmark, params), after the keys not greater *)
RECURSIVE InsertByKey(_, _)
InsertByKey(x, t) ==
    IF t = <<>> THEN <<x>>
    ELSE IF KeyLt(x, Head(t)) THEN <<x>> \o t
    ELSE <<Head(t)>> \o InsertByKey(x, Tail(t))

(* sorted(ks, key=lambda k: (k.benchmark, k.params)) : a stable sort *)
RECURSIVE SortedByKey(_)
SortedByKey(s) ==
    IF s = <<>> THEN <<>>
    ELSE InsertByKey(s[Len(s)], SortedByKey(SubSeq(s, 1, Len(s) - 1)))

(* a faulty variant of MatchedKeys : the keys stay in the order of the current index *)
MatchedKeysUnsorted(c_idx, b_idx, benchmark_contains) ==
    SelectSeq(DictKeys(c_idx),
              LAMBDA k : InDict(k, b_idx) /\ MatchesBenchmark(k, benchmark_contains))

MatchedKeys(c_idx, b_idx, benchmark_contains) ==
    SortedByKey(SelectSeq(DictKeys(c_idx),
                          LAMBDA k : InDict(k, b_idx)
                                     /\ MatchesBenchmark(k, benchmark_contains)))

(* keys of idx that are not in other and pass the filter, sorted *)
MissingKeys(idx, other, benchmark_contains) ==
    SortedByKey(SelectSeq(DictKeys(idx),
                          LAMBDA k : ~InDict(k, other)
                                     /\ MatchesBenchmark(k, benchmark_contains)))

HeaderLines(benchmark_contains, ignore_params) ==
    <<S_Current \o CurrentPath, S_Baseline \o BaselinePath>>
    \o (IF Truthy(benchmark_contains)
        THEN <<S_FilterPre \o benchmark_contains.s \o <<39>>>> ELSE <<>>)
    \o (IF ignore_params # <<>>
        THEN <<S_IgnoringPre \o Join(<<44, 32>>, ignore_params)>> ELSE <<>>)
    \o << <<>> >>

MetricLine(label, b, c, unit) ==
    label \o Fmt(b) \o S_Arrow \o Fmt(c) \o <<32>> \o unit \o S_Delta \o FmtDelta(c.v, b.v)

(* the lines printed for one matched key *)
KeyLines(k, c_idx, b_idx) ==
    LET c_metric == GetMetric(DictGet(c_idx, k))
        b_metric == GetMetric(DictGet(b_idx, k))
        c_score == GetScore(c_metric)
        b_score == GetScore(b_metric)
        unit == IF GetUnit(c_metric) # <<>> THEN GetUnit(c_metric) ELSE GetUnit(b_metric)
        p50_c == GetPercentile(c_metric, "p50")
        p50_b == GetPercentile(b_metric, "p50")
        p99_c == GetPercentile(c_metric, "p99")
        p99_b == GetPercentile(b_metric, "p99")
        p999_c == GetPercentile(c_metric, "p999")
        p999_b == GetPercentile(b_metric, "p999")
    IN <<Pretty(k)>>
       \o (IF c_score.some /\ b_score.some
           THEN <<MetricLine(S_Mean, b_score, c_score, unit)>>
           ELSE <<S_Mean \o S_NA>>)
       \o (IF p50_b.some /\ p50_c.some
           THEN <<MetricLine(S_P50, p50_b, p50_c, unit)>> ELSE <<>>)
       \o (IF p99_b.some /\ p99_c.some
           THEN <<MetricLine(S_P99, p99_b, p99_c, unit)>> ELSE <<>>)
       \o (IF p999_b.some /\ p999_c.some
           THEN <<MetricLine(S_P999, p999_b, p999_c, unit)>> ELSE <<>>)
       \o << <<>> >>

(* a faulty variant of NoMatchLines : the two counts are exchanged *)
NoMatchLinesSwapped(mib, mic) ==
    <<S_NoMatch>>
    \o (IF mib # <<>> THEN <<S_CurOnlyShort \o NatStr(Len(mic))>> ELSE <<>>)
    \o (IF mic # <<>> THEN <<S_BaseOnlyShort \o NatStr(Len(mib))>> ELSE <<>>)

NoMatchLines(mib, mic) ==
    <<S_NoMatch>>
    \o (IF mib # <<>> THEN <<S_CurOnlyShort \o NatStr(Len(mib))>> ELSE <<>>)
    \o (IF mic # <<>> THEN <<S_BaseOnlyShort \o NatStr(Len(mic))>> ELSE <<>>)

TailLines(mib, mic) ==
    (IF mib # <<>> THEN <<S_CurOnlyLong \o NatStr(Len(mib))>> ELSE <<>>)
    \o (IF mic # <<>> THEN <<S_BaseOnlyLong \o NatStr(Len(mic))>> ELSE <<>>)

Init ==
    /\ pc = "start"
    /\ args = <<>>
    /\ current_idx = <<>>
    /\ baseline_idx = <<>>
    /\ keys = <<>>
    /\ missing_in_baseline = <<>>
    /\ missing_in_current = <<>>
    /\ stdout = <<>>
    /\ rc = <<>>
    /\ raised = "none"
    /\ result = <<>>
    /\ rows = <<>>
    /\ groups = <<>>
    /\ exit_status = <<>>

(* what compare(current_path, baseline_path, benchmark_contains, ignore_params)     *)
(* computes, where current and baseline are what _load_json returns for the two     *)
(* paths; rc is <<>> when compare does not return and <<r>> when it returns r       *)
CompareResult(current, baseline, benchmark_contains, ignore_params) ==
    IF current.t # "list" \/ baseline.t # "list"
    THEN [raised |-> "SystemExit", current_idx |-> <<>>, baseline_idx |-> <<>>,
          keys |-> <<>>, missing_in_baseline |-> <<>>, missing_in_current |-> <<>>,
          stdout |-> <<>>, rc |-> <<>>]
    ELSE LET c_idx == Index(current.items, ignore_params)
             b_idx == Index(baseline.items, ignore_params)
             ks == MatchedKeys(c_idx, b_idx, benchmark_contains)
             mib == MissingKeys(c_idx, b_idx, benchmark_contains)
             mic == MissingKeys(b_idx, c_idx, benchmark_contains)
             header == HeaderLines(benchmark_contains, ignore_params)
         IN [raised |-> "none", current_idx |-> c_idx, baseline_idx |-> b_idx,
             keys |-> ks, missing_in_baseline |-> mib, missing_in_current |-> mic,
             stdout |-> IF ks = <<>>
                        THEN header \o NoMatchLines(mib, mic)
                        ELSE header
                             \o Flatten([i \in 1..Len(ks) |-> KeyLines(ks[i], c_idx, b_idx)])
                             \o TailLines(mib, mic),
             rc |-> IF ks = <<>> THEN <<1>> ELSE <<0>>]

(* one run of bench_diff.py *)
Compare(current, baseline, benchmark_contains, ignore_params) ==
    LET r == CompareResult(current, baseline, benchmark_contains, ignore_params)
    IN /\ pc = "start"
       /\ pc' = "done"
       /\ args' = [current |-> current, baseline |-> baseline,
                   benchmark_contains |-> benchmark_contains,
                   ignore_params |-> ignore_params]
       /\ current_idx' = r.current_idx
       /\ baseline_idx' = r.baseline_idx
       /\ keys' = r.keys
       /\ missing_in_baseline' = r.missing_in_baseline
       /\ missing_in_current' = r.missing_in_current
       /\ stdout' = r.stdout
       /\ rc' = r.rc
       /\ raised' = r.raised
       /\ UNCHANGED <<result, rows, groups, exit_status>>

----------------------------------------------------------------------------
(* bench_table.py *)

S_implementation ==                                \* "implementation"
    <<105, 109, 112, 108, 101, 109, 101, 110, 116, 97, 116, 105, 111, 110>>

EStr ==                                            \* a JSON string as an element
    [t |-> "str", benchmark |-> Absent, params |-> PAbsent, primaryMetric |-> MOther("absent")]

TInt == [t |-> "int", items |-> <<>>]              \* the JSON number 5
TNull == [t |-> "null", items |-> <<>>]            \* the JSON null
TObject == [t |-> "dict", items |-> <<EStr>>]      \* the JSON object {"a": 1}, iterated by key
TString == [t |-> "str", items |-> <<EStr, EStr>>] \* the JSON string "ab", iterated by char

(* _fmt_num *)
FmtNum(value) ==
    IF value.t = "null" THEN <<>>
    ELSE IF TryFloat(value).some THEN IntStr(TryFloat(value).v) \o <<46>> \o Zeros(3)
    ELSE Str(value)

(* d.get(name, "") on a params dict given by its items *)
ItemsGetOrEmpty(items, name) ==
    IF \E i \in 1..Len(items) : items[i][1] = name
    THEN items[CHOOSE i \in 1..Len(items) : items[i][1] = name][2]
    ELSE VStr(<<>>)

(* x or {} : a dict when x is a non-empty dict, {} when x is falsy, else x itself; *)
(* .get on what is then not a dict raises AttributeError                           *)
NotDictTruthy(x) == x.t \notin {"dict", "absent", "null"}

(* the loop body of main raises AttributeError on this element *)
EntryRaises(entry) ==
    \/ entry.t # "dict"
    \/ NotDictTruthy(entry.params)
    \/ NotDictTruthy(entry.primaryMetric)
    \/ (entry.primaryMetric.t = "dict" /\ NotDictTruthy(entry.primaryMetric.scorePercentiles))

(* the row appended for one entry *)
RowOf(entry) ==
    LET bench == GetOrEmpty(entry.benchmark)
        params == IF entry.params.t = "dict" THEN entry.params.items ELSE <<>>
        impl == ItemsGetOrEmpty(params, S_implementation)
        metric == IF entry.primaryMetric.t = "dict" THEN entry.primaryMetric ELSE EmptyMetric
        pct == IF metric.scorePercentiles.t = "dict"
               THEN metric.scorePercentiles ELSE QOther("absent")
    IN [full |-> bench, Impl |-> impl, Mean |-> Get(metric.score),
        p50 |-> Get(pct.p50), p99 |-> Get(pct.p99), p999 |-> Get(pct.p999),
        Unit |-> GetOrEmpty(metric.scoreUnit)]

(* x < y is defined for two strings and for two numbers *)
Orderable(x, y) == x.t = y.t /\ x.t \in {"str", "int"}

ValLt(x, y) == IF x.t = "str" THEN StrLt(x.s, y.s) ELSE x.n < y.n

(* comparing the sort keys (full, Impl) of two rows raises TypeError *)
RowsIncomparable(a, b) ==
    IF a.full # b.full THEN ~Orderable(a.full, b.full)
    ELSE a.Impl # b.Impl /\ ~Orderable(a.Impl, b.Impl)

(* a faulty variant of RowLt : the rows are ordered by implementation label alone *)
RowLtImplOnly(a, b) ==
    IF a.Impl # b.Impl THEN ValLt(a.Impl, b.Impl) ELSE FALSE

(* tuple order of the sort keys (r["full"], r["Impl"]) *)
RowLt(a, b) ==
    IF a.full # b.full THEN ValLt(a.full, b.full)
    ELSE IF a.Impl # b.Impl THEN ValLt(a.Impl, b.Impl)
    ELSE FALSE

(* rows.sort raises TypeError : some comparison it needs is not defined *)
SortRaises(rs) ==
    \E i, j \in 1..Len(rs) : i < j /\ RowsIncomparable(rs[i], rs[j])

(* a row put into a sorted list, after the rows not greater than it *)
RECURSIVE InsertRow(_, _)
InsertRow(x, t) ==
    IF t = <<>> THEN <<x>>
    ELSE IF RowLt(x, Head(t)) THEN <<x>> \o t
    ELSE <<Head(t)>> \o InsertRow(x, Tail(t))

(* rows.sort(key=lambda r: (r["full"], r["Impl"])) : a stable sort *)
RECURSIVE SortRows(_)
SortRows(rs) ==
    IF rs = <<>> THEN <<>>
    ELSE InsertRow(rs[Len(rs)], SortRows(SubSeq(rs, 1, Len(rs) - 1)))

(* itertools.groupby(rows, key=full) : maximal runs of consecutive equal keys *)
RECURSIVE GroupBy(_)
GroupBy(rs) ==
    IF rs = <<>> THEN <<>>
    ELSE LET rest == GroupBy(Tail(rs))
         IN IF rest # <<>> /\ rest[1].full = Head(rs).full
            THEN <<[full |-> rest[1].full, group |-> <<Head(rs)>> \o rest[1].group]>>
                 \o Tail(rest)
            ELSE <<[full |-> Head(rs).full, group |-> <<Head(rs)>>]>> \o rest

Cols ==
    << [name |-> <<73, 109, 112, 108>>, field |-> "Impl", num |-> FALSE],       \* "Impl"
       [name |-> <<77, 101, 97, 110>>, field |-> "Mean", num |-> TRUE],         \* "Mean"
       [name |-> <<112, 53, 48>>, field |-> "p50", num |-> TRUE],               \* "p50"
       [name |-> <<112, 57, 57>>, field |-> "p99", num |-> TRUE],               \* "p99"
       [name |-> <<112, 57, 57, 46, 57>>, field |-> "p999", num |-> TRUE],      \* "p99.9"
       [name |-> <<85, 110, 105, 116>>, field |-> "Unit", num |-> FALSE] >>     \* "Unit"

Cell(col, row) ==
    LET v == row[col.field]
    IN IF col.num THEN FmtNum(v)
       ELSE IF Truthy(v) THEN Str(v) ELSE <<>>

RECURSIVE MaxOf(_)
MaxOf(ns) == IF Len(ns) = 1 THEN ns[1] ELSE Max2(ns[1], MaxOf(Tail(ns)))

Spaces(n) == [i \in 1..n |-> 32]

LJust(s, w) == IF Len(s) >= w THEN s ELSE s \o Spaces(w - Len(s))

RJust(s, w) == IF Len(s) >= w THEN s ELSE Spaces(w - Len(s)) \o s

(* the lines of _render_group, the title line being full_benchmark as it is *)
RenderGroup(full_benchmark, group) ==
    LET widths == [c \in 1..Len(Cols) |->
                      Max2(Len(Cols[c].name),
                           MaxOf([r \in 1..Len(group) |-> Len(Cell(Cols[c], group[r]))]))]
        header == <<32, 32>> \o Join(<<32, 32>>,
                      [c \in 1..Len(Cols) |-> LJust(Cols[c].name, widths[c])])
        dashes == <<32, 32>> \o Join(<<32, 32>>,
                      [c \in 1..Len(Cols) |-> [i \in 1..widths[c] |-> 45]])
        line(r) == <<32, 32>> \o Join(<<32, 32>>,
                      [c \in 1..Len(Cols) |->
                          IF Cols[c].num THEN RJust(Cell(Cols[c], r), widths[c])
                          ELSE LJust(Cell(Cols[c], r), widths[c])])
    IN <<full_benchmark.s, header, dashes>> \o [r \in 1..Len(group) |-> line(group[r])]

(* "\n".join(lines) raises TypeError when the title is not a str *)
RenderRaises(gs) == \E g \in 1..Len(gs) : gs[g].full.t # "str"

RECURSIVE RStrip(_)
RStrip(s) ==
    IF s = <<>> THEN <<>>
    ELSE IF s[Len(s)] = 32 THEN RStrip(SubSeq(s, 1, Len(s) - 1))
    ELSE s

(* the lines of text.rstrip() for the text "\n".join(lines) *)
RECURSIVE RStripLines(_)
RStripLines(lines) ==
    IF lines = <<>> THEN << <<>> >>
    ELSE IF RStrip(lines[Len(lines)]) = <<>> THEN RStripLines(SubSeq(lines, 1, Len(lines) - 1))
    ELSE SubSeq(lines, 1, Len(lines) - 1) \o <<RStrip(lines[Len(lines)])>>

(* what main() of bench_table.py computes for the parsed file content data;        *)
(* exit_status is 0 when main returns and 1 when an exception is not caught        *)
TableResult(data) ==
    LET failed(exc) == [raised |-> exc, rows |-> <<>>, groups |-> <<>>, stdout |-> <<>>,
                        exit_status |-> <<1>>]
    IN IF data.t \notin {"list", "dict", "str"} THEN failed("TypeError")
       ELSE IF \E i \in 1..Len(data.items) : EntryRaises(data.items[i])
       THEN failed("AttributeError")
       ELSE LET unsorted == [i \in 1..Len(data.items) |-> RowOf(data.items[i])]
            IN IF SortRaises(unsorted) THEN failed("TypeError")
               ELSE LET rs == SortRows(unsorted)
                        gs == GroupBy(rs)
                    IN IF RenderRaises(gs) THEN failed("TypeError")
                       ELSE [raised |-> "none", rows |-> rs, groups |-> gs,
                             stdout |-> RStripLines(Flatten(
                                 [g \in 1..Len(gs) |->
                                     RenderGroup(gs[g].full, gs[g].group) \o << <<>> >>])),
                             exit_status |-> <<0>>]

(* one run of bench_table.py *)
Table(data) ==
    LET r == TableResult(data)
    IN /\ pc = "start"
       /\ pc' = "done"
       /\ args' = [data |-> data]
       /\ rows' = r.rows
       /\ groups' = r.groups
       /\ stdout' = r.stdout
       /\ raised' = r.raised
       /\ exit_status' = r.exit_status
       /\ UNCHANGED <<current_idx, baseline_idx, keys, missing_in_baseline,
                      missing_in_current, rc, result>>

----------------------------------------------------------------------------
(* _key_for_entry and _index called on their own *)

KeyForEntryCall(e1, e2, ignore_params) ==
    /\ pc = "start"
    /\ pc' = "done"
    /\ args' = [e1 |-> e1, e2 |-> e2, ignore_params |-> ignore_params]
    /\ result' = <<KeyForEntry(e1, ignore_params), KeyForEntry(e2, ignore_params)>>
    /\ UNCHANGED <<current_idx, baseline_idx, keys, missing_in_baseline,
                   missing_in_current, stdout, rc, raised, rows, groups, exit_status>>

IndexCall(entries, ignore_params) ==
    /\ pc = "start"
    /\ pc' = "done"
    /\ args' = [entries |-> entries, ignore_params |-> ignore_params]
    /\ result' = Index(entries, ignore_params)
    /\ UNCHANGED <<current_idx, baseline_idx, keys, missing_in_baseline,
                   missing_in_current, stdout, rc, raised, rows, groups, exit_status>>

FmtDeltaCall(current, baseline) ==
    /\ pc = "start"
    /\ pc' = "done"
    /\ args' = [current |-> current, baseline |-> baseline]
    /\ result' = FmtDelta(current, baseline)
    /\ UNCHANGED <<current_idx, baseline_idx, keys, missing_in_baseline,
                   missing_in_current, stdout, rc, raised, rows, groups, exit_status>>

----------------------------------------------------------------------------
(* The inputs drawn *)

sA == <<65>>
sa == <<97>>
sB == <<66>>
sAB == <<65, 66>>
si == <<105>>
ss == <<115>>
sx == <<120>>
sy == <<121>>
s1 == <<49>>
s2 == <<50>>
s7 == <<55>>
sUnit == <<117, 115, 47, 111, 112>>                \* "us/op"

FullMetric(n) == MDict(VInt(n), VStr(sUnit), QDict(VInt(n), VInt(n + 1), VInt(n + 2)))

(* params dicts over the names i and s, in both insertion orders *)
ParamValues == {VStr(s1), VInt(1), VStr(s2)}
ParamDicts ==
    {PDict(<<>>)}
    \cup {PDict(<< <<n, v>> >>) : n \in {si, ss}, v \in ParamValues}
    \cup {PDict(<< <<n, v>>, <<m, w>> >>) :
              n \in {si}, m \in {ss}, v \in ParamValues, w \in ParamValues}
    \cup {PDict(<< <<n, v>>, <<m, w>> >>) :
              n \in {ss}, m \in {si}, v \in ParamValues, w \in ParamValues}

KeyEntries ==
    {EDict(b, p, FullMetric(10)) : b \in {VStr(sA), Absent}, p \in ParamDicts \cup {PAbsent, PStr}}

IgnoreLists == {<<>>, <<si>>, <<ss>>, <<si, ss>>, <<sx>>}

NextKey ==
    \E e1 \in KeyEntries, e2 \in KeyEntries, ig \in IgnoreLists : KeyForEntryCall(e1, e2, ig)

IndexEntries ==
    { ENotDict,
      EDict(Absent, PAbsent, FullMetric(10)),
      EDict(VStr(<<>>), PDict(<< <<si, VStr(s1)>> >>), FullMetric(10)),
      EDict(VNull, PAbsent, FullMetric(10)),
      EDict(VStr(sA), PAbsent, FullMetric(10)),
      EDict(VStr(sA), PDict(<<>>), FullMetric(20)),
      EDict(VStr(sA), PDict(<< <<si, VStr(s1)>> >>), FullMetric(10)),
      EDict(VStr(sA), PDict(<< <<si, VList>> >>), FullMetric(10)),
      EDict(VStr(sB), PDict(<< <<si, VStr(s1)>> >>), FullMetric(10)) }

NextIndex ==
    \E entries \in SeqsUpTo(IndexEntries, MaxIndexEntries), ig \in {<<>>, <<si>>} :
        IndexCall(entries, ig)

CompareEntries ==
    { EDict(VStr(sA), PAbsent, FullMetric(10)),
      EDict(VStr(sAB), PDict(<< <<si, VInt(1)>> >>), FullMetric(10)),
      EDict(VStr(sAB), PDict(<< <<si, VStr(s2)>> >>), FullMetric(20)) }

Filters == {VNull, VStr(<<>>), VStr(sB), VStr(sa)}

CompareInputs == {TList(es) : es \in SeqsUpTo(CompareEntries, MaxEntries)} \cup {TDict}

NextCompare ==
    \E current \in CompareInputs, baseline \in CompareInputs,
       benchmark_contains \in Filters, ignore_params \in {<<>>, <<si>>} :
        Compare(current, baseline, benchmark_contains, ignore_params)

PermInputs == {TList(es) : es \in SeqsUpTo(CompareEntries, MaxPermEntries)}

NextPerm ==
    \E current \in PermInputs, baseline \in PermInputs,
       benchmark_contains \in {VNull, VStr(sB)}, ignore_params \in {<<>>, <<si>>} :
        Compare(current, baseline, benchmark_contains, ignore_params)

(* metrics whose mean slot and percentile slots have, lack or cannot convert a value *)
SlotValues(n) == {Absent, VInt(n), VStr(sx)}
Metrics(n) ==
    {MOther("absent"), MOther("str")}
    \cup {MDict(sc, VStr(sUnit), q) :
              sc \in SlotValues(n) \cup {VNull, VStr(s7)},
              q \in {QOther("absent"), QOther("str")}
                    \cup {QDict(a, b, c) : a \in SlotValues(n + 1),
                                           b \in {Absent, VInt(n + 2)},
                                           c \in {VNull, VInt(n + 3)}}}

MetricInputs(n) ==
    {TList(<<EDict(VStr(sA), PAbsent, m)>>) : m \in Metrics(n)}
    \cup {TList(<<EDict(VStr(sA), PAbsent, m), EDict(VStr(sB), PAbsent, FullMetric(n))>>) :
              m \in Metrics(n)}

NextMetric ==
    \E current \in MetricInputs(10), baseline \in MetricInputs(20) :
        Compare(current, baseline, VNull, <<>>)

Nums == (-MaxNum..MaxNum) \cup {10, 20}

NextDelta == \E current \in Nums, baseline \in Nums : FmtDeltaCall(current, baseline)

TableEntries ==
    { EDict(VStr(sA), PDict(<< <<S_implementation, VStr(sx)>> >>), FullMetric(10)),
      EDict(VStr(sA), PDict(<< <<si, VInt(1)>>, <<S_implementation, VStr(sy)>> >>),
            FullMetric(10)),
      EDict(VStr(sA), PDict(<< <<S_implementation, VStr(sx)>> >>),
            MDict(VStr(sx), Absent, QDict(VStr(s7), VNull, Absent))),
      EDict(VStr(sB), PDict(<< <<S_implementation, VStr(sx)>> >>), FullMetric(10)),
      EDict(VStr(sB), PAbsent, MOther("null")),
      EDict(Absent, PDict(<< <<S_implementation, VStr(sy)>> >>), FullMetric(10)),
      ENotDict,
      EDict(VNull, PNull, FullMetric(10)),
      EDict(VStr(sA), PStr, FullMetric(10)),
      EDict(VStr(sA), PAbsent, MOther("str")),
      EDict(VStr(sA), PDict(<< <<S_implementation, VInt(1)>> >>), FullMetric(10)) }

TableInputs ==
    {TList(es) : es \in SeqsUpTo(TableEntries, MaxRows)}
    \cup {TDict, TObject, TString, TInt, TNull}

NextTable == \E data \in TableInputs : Table(data)

SpecKey == Init /\ [][NextKey]_vars
SpecIndex == Init /\ [][NextIndex]_vars
SpecCompare == Init /\ [][NextCompare]_vars
SpecPerm == Init /\ [][NextPerm]_vars
SpecMetric == Init /\ [][NextMetric]_vars
SpecDelta == Init /\ [][NextDelta]_vars
SpecTable == Init /\ [][NextTable]_vars

Next == NextKey \/ NextIndex \/ NextCompare \/ NextPerm \/ NextMetric \/ NextDelta \/ NextTable
Spec == Init /\ [][Next]_vars

----------------------------------------------------------------------------
(* Properties of _key_for_entry and _index *)

(* the raw parameter mapping of an entry : name -> JSON value, Absent when unnamed *)
RawParam(e, name) ==
    IF e.params.t = "dict" THEN
        IF \E i \in 1..Len(e.params.items) : e.params.items[i][1] = name
        THEN e.params.items[CHOOSE i \in 1..Len(e.params.items) : e.params.items[i][1] = name][2]
        ELSE Absent
    ELSE Absent

ParamNames == {si, ss, sx}

DifferOnlyInIgnored(e1, e2, ignore_params) ==
    /\ e1.benchmark = e2.benchmark
    /\ \A n \in ParamNames \ Range(ignore_params) : RawParam(e1, n) = RawParam(e2, n)

(* C5: the key derived by _key_for_entry holds no parameter named in the ignore-list, *)
(* and two entries with the same benchmark name whose parameters differ only in       *)
(* ignored parameters (in value or in presence) derive equal keys.                    *)
C5_IgnoreListSubtraction ==
    pc = "done" =>
        /\ \A k \in Range(result) : \A i \in 1..Len(k.params) :
               k.params[i][1] \notin Range(args.ignore_params)
        /\ DifferOnlyInIgnored(args.e1, args.e2, args.ignore_params) => result[1] = result[2]

C5_Witness ==
    /\ pc = "done"
    /\ args.ignore_params = <<si>>
    /\ RawParam(args.e1, si) = VStr(s1)
    /\ RawParam(args.e2, si) = Absent
    /\ RawParam(args.e1, ss) = VInt(1)
    /\ DifferOnlyInIgnored(args.e1, args.e2, args.ignore_params)
    /\ result[1] = result[2]
    /\ Len(result[1].params) = 1

(* the positions of the list whose element is indexed under key k *)
PositionsOf(entries, ignore_params, k) ==
    {j \in 1..Len(entries) :
         entries[j].t = "dict" /\ KeyForEntry(entries[j], ignore_params) = k}

SetMax(S) == CHOOSE m \in S : \A n \in S : n <= m

(* C4: whenever entries canonicalize to the same indexed key, _index maps the key to  *)
(* the entry at the greatest position of the input list.                              *)
C4_LastWriteWins ==
    pc = "done" =>
        \A i \in 1..Len(result) :
            LET k == result[i][1]
                P == PositionsOf(args.entries, args.ignore_params, k)
            IN P # {} /\ result[i][2] = args.entries[SetMax(P)]

C4_Witness ==
    /\ pc = "done"
    /\ \E i \in 1..Len(result) :
           LET P == PositionsOf(args.entries, args.ignore_params, result[i][1])
           IN /\ Cardinality(P) >= 2
              /\ \E a \in P, b \in P : a < b /\ args.entries[a] # args.entries[b]
                                        /\ result[i][2] = args.entries[b]
                                        /\ result[i][2] # args.entries[a]

(* the benchmark name of a raw entry is empty or absent *)
NoBenchmarkName(e) == e.benchmark.t = "absent" \/ e.benchmark = VStr(<<>>)

(* C8: the index holds only keys with a non-empty benchmark name; elements that are  *)
(* not objects and entries without a benchmark name contribute no key and stop       *)
(* nothing; the key of every other entry is in the index.                            *)
C8_IndexKeys ==
    pc = "done" =>
        /\ \A i \in 1..Len(result) : result[i][1].benchmark # <<>>
        /\ \A i \in 1..Len(result) :
               \E j \in 1..Len(args.entries) :
                   /\ args.entries[j].t = "dict"
                   /\ ~NoBenchmarkName(args.entries[j])
                   /\ KeyForEntry(args.entries[j], args.ignore_params) = result[i][1]
        /\ \A j \in 1..Len(args.entries) :
               (args.entries[j].t = "dict" /\ ~NoBenchmarkName(args.entries[j]))
                   => \E i \in 1..Len(result) :
                          result[i][1] = KeyForEntry(args.entries[j], args.ignore_params)
        /\ \A i, j \in 1..Len(result) : i # j => result[i][1] # result[j][1]

C8_Witness ==
    /\ pc = "done"
    /\ Len(args.entries) = 3
    /\ args.entries[1].t # "dict"
    /\ args.entries[2].t = "dict" /\ NoBenchmarkName(args.entries[2])
    /\ args.entries[3].t = "dict" /\ args.entries[3].benchmark = VNull
    /\ Len(result) = 1
    /\ result[1][2] = args.entries[3]

----------------------------------------------------------------------------
(* Properties of compare *)

(* the keys an input file puts into its index *)
InputKeys(top, ignore_params) ==
    {KeyForEntry(top.items[j], ignore_params) :
         j \in {i \in 1..Len(top.items) :
                    top.items[i].t = "dict" /\ ~NoBenchmarkName(top.items[i])}}

(* the benchmark name holds the filter substring, or no filter is given *)
PassesFilter(k, benchmark_contains) ==
    \/ benchmark_contains.t = "null"
    \/ benchmark_contains.s = <<>>
    \/ \E i \in 1..Len(k.benchmark) : \E j \in i..Len(k.benchmark) :
           SubSeq(k.benchmark, i, j) = benchmark_contains.s

NoDuplicates(s) == \A i, j \in 1..Len(s) : i # j => s[i] # s[j]

Returned == pc = "done" /\ raised = "none"

(* C1: a key is matched iff it is in both indices and passes the filter, current-only *)
(* iff it is in the current index only and passes, baseline-only symmetrically; so a  *)
(* passing key is in exactly one list and a failing key in none.                      *)
C1_ThreeLists ==
    Returned =>
        LET C == InputKeys(args.current, args.ignore_params)
            B == InputKeys(args.baseline, args.ignore_params)
            pass(k) == PassesFilter(k, args.benchmark_contains)
        IN /\ Range(keys) = {k \in C \cap B : pass(k)}
           /\ Range(missing_in_baseline) = {k \in C \ B : pass(k)}
           /\ Range(missing_in_current) = {k \in B \ C : pass(k)}
           /\ NoDuplicates(keys \o missing_in_baseline \o missing_in_current)

C1_Witness ==
    /\ Returned
    /\ args.benchmark_contains = VStr(sB)
    /\ keys # <<>> /\ missing_in_baseline # <<>>
    /\ \E k \in InputKeys(args.baseline, args.ignore_params) :
           /\ ~PassesFilter(k, args.benchmark_contains)
           /\ k \notin Range(keys \o missing_in_baseline \o missing_in_current)

HasPrefix(line, prefix) == Len(line) >= Len(prefix) /\ SubSeq(line, 1, Len(prefix)) = prefix

(* a line of a per-key comparison *)
IsMetricLine(line) == \E label \in {S_Mean, S_P50, S_P99, S_P999} : HasPrefix(line, label)

RcAgreesWithMatches ==
    /\ rc = <<0>> <=> keys # <<>>
    /\ rc = <<1>> <=> keys = <<>>
    /\ keys # <<>> <=> \E k \in InputKeys(args.current, args.ignore_params) :
                           /\ k \in InputKeys(args.baseline, args.ignore_params)
                           /\ PassesFilter(k, args.benchmark_contains)

(* C2 as stated: compare returns 0 iff a key is matched and 1 iff none is; with no    *)
(* match it prints no per-key comparison and still reports the count of current-only  *)
(* entries and the count of baseline-only entries.                                    *)
C2_CountsAlwaysReported ==
    Returned =>
        /\ RcAgreesWithMatches
        /\ keys = <<>> =>
               /\ \A i \in 1..Len(stdout) : ~IsMetricLine(stdout[i])
               /\ \E i \in 1..Len(stdout) :
                      stdout[i] = S_CurOnlyShort \o NatStr(Len(missing_in_baseline))
               /\ \E i \in 1..Len(stdout) :
                      stdout[i] = S_BaseOnlyShort \o NatStr(Len(missing_in_current))

(* C2 amended: as above, but each of the two counts is reported exactly when it is    *)
(* not zero.                                                                          *)
C2_NonZeroCountsReported ==
    Returned =>
        /\ RcAgreesWithMatches
        /\ keys = <<>> =>
               /\ \A i \in 1..Len(stdout) : ~IsMetricLine(stdout[i])
               /\ missing_in_baseline # <<>> <=>
                      \E i \in 1..Len(stdout) : HasPrefix(stdout[i], S_CurOnlyShort)
               /\ missing_in_current # <<>> <=>
                      \E i \in 1..Len(stdout) : HasPrefix(stdout[i], S_BaseOnlyShort)
               /\ \A i \in 1..Len(stdout) :
                      /\ HasPrefix(stdout[i], S_CurOnlyShort) =>
                             stdout[i] = S_CurOnlyShort \o NatStr(Len(missing_in_baseline))
                      /\ HasPrefix(stdout[i], S_BaseOnlyShort) =>
                             stdout[i] = S_BaseOnlyShort \o NatStr(Len(missing_in_current))

C2_Witness ==
    /\ Returned
    /\ rc = <<1>>
    /\ Len(missing_in_baseline) = 2
    /\ Len(missing_in_current) = 1
    /\ stdout[Len(stdout)] = S_BaseOnlyShort \o <<49>>
    /\ stdout[Len(stdout) - 1] = S_CurOnlyShort \o <<50>>

Ascending(s) == \A i \in 1..(Len(s) - 1) : KeyLt(s[i], s[i + 1])

Perms(n) == {f \in [1..n -> 1..n] : \A i, j \in 1..n : i # j => f[i] # f[j]}

Permuted(top, f) == TList([i \in 1..Len(top.items) |-> top.items[f[i]]])

(* C7: the three lists are strictly ascending by (benchmark, params), and they are   *)
(* the same sequences for every reordering of the entries of either input.           *)
C7_SortedAndOrderIndependent ==
    Returned =>
        /\ Ascending(keys)
        /\ Ascending(missing_in_baseline)
        /\ Ascending(missing_in_current)
        /\ \A f \in Perms(Len(args.current.items)), g \in Perms(Len(args.baseline.items)) :
               LET c == Index(Permuted(args.current, f).items, args.ignore_params)
                   b == Index(Permuted(args.baseline, g).items, args.ignore_params)
               IN /\ MatchedKeys(c, b, args.benchmark_contains) = keys
                  /\ MissingKeys(c, b, args.benchmark_contains) = missing_in_baseline
                  /\ MissingKeys(b, c, args.benchmark_contains) = missing_in_current

C7_Witness ==
    /\ Returned
    /\ Len(keys) = 2
    /\ Len(args.current.items) = 2
    /\ Len(args.baseline.items) = 2
    /\ KeyForEntry(args.current.items[1], args.ignore_params) = keys[2]
    /\ KeyForEntry(args.baseline.items[1], args.ignore_params) = keys[1]
    /\ keys[1].benchmark = keys[2].benchmark

----------------------------------------------------------------------------
(* Properties of the per-key report of compare *)

FirstBlank(lines) == CHOOSE i \in 1..Len(lines) : lines[i] = <<>> /\ \A j \in 1..(i - 1) : lines[j] # <<>>

(* the runs of lines between blank lines : header, one block per key, trailer *)
RECURSIVE Blocks(_)
Blocks(lines) ==
    IF \A i \in 1..Len(lines) : lines[i] # <<>> THEN <<lines>>
    ELSE <<SubSeq(lines, 1, FirstBlank(lines) - 1)>>
         \o Blocks(SubSeq(lines, FirstBlank(lines) + 1, Len(lines)))

Slots ==
    { [name |-> "mean", label |-> S_Mean], [name |-> "p50", label |-> S_P50],
      [name |-> "p99", label |-> S_P99], [name |-> "p999", label |-> S_P999] }

(* a JSON value that converts to a number *)
Numeric(v) == v.t = "int" \/ (v.t = "str" /\ IsDigits(v.s))

(* the raw entry has a value for the slot *)
HasValue(entry, slot) ==
    /\ entry.primaryMetric.t = "dict"
    /\ IF slot = "mean" THEN Numeric(entry.primaryMetric.score)
       ELSE /\ entry.primaryMetric.scorePercentiles.t = "dict"
            /\ Numeric(entry.primaryMetric.scorePercentiles[slot])

BothHaveValue(k, slot) ==
    HasValue(DictGet(current_idx, k), slot) /\ HasValue(DictGet(baseline_idx, k), slot)

SlotLines(block, label) == SelectSeq(block, LAMBDA line : HasPrefix(line, label))

EveryKeyReported ==
    /\ rc = <<0>>
    /\ Len(Blocks(stdout)) = Len(keys) + 2
    /\ \A i \in 1..Len(keys) : Blocks(stdout)[i + 1][1] = Pretty(keys[i])
    /\ \A i \in 1..Len(keys) : \A s \in Slots :
           BothHaveValue(keys[i], s.name) =>
               /\ Len(SlotLines(Blocks(stdout)[i + 1], s.label)) = 1
               /\ Contains(SlotLines(Blocks(stdout)[i + 1], s.label)[1], S_Delta)

(* C3 as stated: for every matched key and each of the four slots, when either side  *)
(* lacks a value the line of that slot is reported as unavailable, and the other     *)
(* slots and keys are still reported.                                                *)
C3_EverySlotReportedUnavailable ==
    (Returned /\ keys # <<>>) =>
        /\ EveryKeyReported
        /\ \A i \in 1..Len(keys) : \A s \in Slots :
               ~BothHaveValue(keys[i], s.name) =>
                   SlotLines(Blocks(stdout)[i + 1], s.label) = <<s.label \o S_NA>>

(* C3 amended: when either side lacks a value, the mean line is reported as n/a and  *)
(* the line of a percentile slot is left out; the other slots and keys are still     *)
(* reported.                                                                         *)
C3_MeanUnavailablePercentileOmitted ==
    (Returned /\ keys # <<>>) =>
        /\ EveryKeyReported
        /\ \A i \in 1..Len(keys) : \A s \in Slots :
               ~BothHaveValue(keys[i], s.name) =>
                   SlotLines(Blocks(stdout)[i + 1], s.label) =
                       IF s.name = "mean" THEN <<S_Mean \o S_NA>> ELSE <<>>

C3_Witness ==
    /\ Returned
    /\ Len(keys) = 2
    /\ DictGet(current_idx, keys[1]).primaryMetric.t = "dict"
    /\ DictGet(current_idx, keys[1]).primaryMetric.score = VStr(sx)
    /\ BothHaveValue(keys[1], "p50")
    /\ ~BothHaveValue(keys[1], "p99")
    /\ Len(Blocks(stdout)[2]) = 3
    /\ Blocks(stdout)[2][2] = S_Mean \o S_NA
    /\ Len(Blocks(stdout)[3]) = 5

----------------------------------------------------------------------------
(* Properties of _fmt_delta *)

(* the position of the first ch in s, 0 when there is none *)
IndexOf(s, ch) ==
    IF \E i \in 1..Len(s) : s[i] = ch
    THEN CHOOSE i \in 1..Len(s) : s[i] = ch /\ \A j \in 1..(i - 1) : s[j] # ch
    ELSE 0

IsSigned(s) == Len(s) >= 2 /\ s[1] \in {43, 45} /\ IsDigits(Tail(s))

SignedVal(s) == IF s[1] = 45 THEN -DigitsVal(Tail(s)) ELSE DigitsVal(Tail(s))

DeltaPart(s) == IF IndexOf(s, 32) = 0 THEN s ELSE SubSeq(s, 1, IndexOf(s, 32) - 1)

(* what follows the delta : empty, or " (" percentage "%)" *)
PctPart(s) ==
    LET rest == SubSeq(s, Len(DeltaPart(s)) + 1, Len(s))
    IN IF Len(rest) >= 4 /\ SubSeq(rest, 1, 2) = <<32, 40>>
          /\ SubSeq(rest, Len(rest) - 1, Len(rest)) = <<37, 41>>
       THEN SubSeq(rest, 3, Len(rest) - 2)
       ELSE <<>>

(* sign, digits, ".", two digits *)
IsSignedPct(p) ==
    /\ Len(p) >= 5
    /\ p[1] \in {43, 45}
    /\ p[Len(p) - 2] = 46
    /\ IsDigits(SubSeq(p, 2, Len(p) - 3))
    /\ IsDigits(SubSeq(p, Len(p) - 1, Len(p)))

(* the magnitude of the percentage, in hundredths of a percent *)
PctHundredths(p) ==
    100 * DigitsVal(SubSeq(p, 2, Len(p) - 3)) + DigitsVal(SubSeq(p, Len(p) - 1, Len(p)))

(* C6: _fmt_delta reports current - baseline with an explicit sign; the percentage   *)
(* is left out iff the baseline is zero, and otherwise is (delta / baseline) * 100   *)
(* to two decimals with an explicit sign; (5, 0) gives +5 and (10, 20) gives         *)
(* -10 (-50.00%).                                                                    *)
C6_DeltaAndPercentage ==
    pc = "done" =>
        LET delta == args.current - args.baseline
            d == DeltaPart(result)
            p == PctPart(result)
        IN /\ IsSigned(d)
           /\ SignedVal(d) = delta
           /\ (d[1] = 45) <=> (delta < 0)
           /\ args.baseline = 0 <=> result = d
           /\ args.baseline = 0 <=> 37 \notin Range(result)
           /\ args.baseline # 0 =>
                  /\ IsSignedPct(p)
                  /\ result = d \o <<32, 40>> \o p \o <<37, 41>>
                  /\ 2 * Abs(PctHundredths(p) * Abs(args.baseline) - Abs(delta) * 10000)
                         <= Abs(args.baseline)
                  /\ (p[1] = 45) <=> ((delta < 0) # (args.baseline < 0))
           /\ (args.current = 5 /\ args.baseline = 0) => result = <<43, 53>>
           /\ (args.current = 10 /\ args.baseline = 20) =>
                  result = <<45, 49, 48, 32, 40, 45, 53, 48, 46, 48, 48, 37, 41>>

C6_Witness ==
    /\ pc = "done"
    /\ args.current = 10
    /\ args.baseline = 20
    /\ result = <<45, 49, 48, 32, 40, 45, 53, 48, 46, 48, 48, 37, 41>>

----------------------------------------------------------------------------
(* Properties of the table tool *)

InputRows == [i \in 1..Len(args.data.items) |-> RowOf(args.data.items[i])]

(* how many times x occurs in s *)
Occurrences(s, x) == Cardinality({i \in 1..Len(s) : s[i] = x})

(* a list of objects whose benchmark and implementation label are strings or absent *)
(* and whose params, primaryMetric and scorePercentiles are objects, null or absent *)
WellFormed(data) ==
    /\ data.t = "list"
    /\ \A i \in 1..Len(data.items) :
           LET e == data.items[i]
           IN /\ e.t = "dict"
              /\ e.benchmark.t \in {"str", "absent"}
              /\ e.params.t \in {"dict", "null", "absent"}
              /\ ItemsGetOrEmpty(e.params.items, S_implementation).t = "str"
              /\ e.primaryMetric.t \in {"dict", "null", "absent"}
              /\ e.primaryMetric.scorePercentiles.t \in {"dict", "null", "absent"}

(* the implementation label of row a is not after that of row b *)
ImplNotAfter(a, b) ==
    a.Impl = b.Impl \/ (Orderable(a.Impl, b.Impl) /\ ValLt(a.Impl, b.Impl))

(* C9: whenever the table tool produces its output, and it does for every well-formed *)
(* entry list, there is one group per distinct benchmark identifier, the groups are   *)
(* in ascending identifier order, each group holds exactly the input entries of its   *)
(* identifier, one row per entry, and the rows of a group are in ascending            *)
(* implementation-label order.                                                        *)
C9_Grouping ==
    pc = "done" =>
        /\ WellFormed(args.data) => raised = "none"
        /\ raised = "none" =>
               /\ \A g, h \in 1..Len(groups) : g # h => groups[g].full # groups[h].full
               /\ \A g \in 1..Len(groups) : groups[g].full.t = "str"
               /\ \A g \in 1..(Len(groups) - 1) :
                      StrLt(groups[g].full.s, groups[g + 1].full.s)
               /\ {groups[g].full : g \in 1..Len(groups)} = {r.full : r \in Range(InputRows)}
               /\ \A g \in 1..Len(groups) :
                      /\ \A r \in Range(groups[g].group) : r.full = groups[g].full
                      /\ \A r \in Range(InputRows) :
                             r.full = groups[g].full =>
                                 Occurrences(groups[g].group, r) = Occurrences(InputRows, r)
                      /\ Range(groups[g].group) \subseteq Range(InputRows)
                      /\ \A i \in 1..(Len(groups[g].group) - 1) :
                             ImplNotAfter(groups[g].group[i], groups[g].group[i + 1])

C9_Witness ==
    /\ pc = "done"
    /\ WellFormed(args.data)
    /\ Len(args.data.items) = 3
    /\ args.data.items[1].benchmark = VStr(sB)
    /\ args.data.items[2].benchmark = VStr(sA)
    /\ args.data.items[3].benchmark = VStr(sB)
    /\ Len(groups) = 2
    /\ groups[1].full = VStr(sA)
    /\ Len(groups[2].group) = 2
    /\ groups[2].group[1] = RowOf(args.data.items[3])
    /\ groups[2].group[2] = RowOf(args.data.items[1])
    /\ groups[2].group[1].Impl # groups[2].group[2].Impl

(* C10: the table tool terminates normally, exit 0 and no uncaught error, for every  *)
(* input that parses as JSON, whatever its shape.                                    *)
C10_AlwaysExitsZero ==
    pc = "done" => (raised = "none" /\ exit_status = <<0>>)

====
